---- MODULE Spec2Model ----
(***************************************************************************)
(* CommuteTimely server: the /predict handler with its heuristic engine    *)
(* (server/app.py) and the in-memory auth stores (server/auth_service.py). *)
(*                                                                         *)
(* Numbers.  Python floats are modelled in exact decimal fixed point:      *)
(*   - a duration in seconds is a record [s, f], s whole seconds and f the *)
(*     fraction in units of 1e-8 s (every product the engine forms from    *)
(*     integer inputs is an exact multiple of 1e-8 s);                     *)
(*   - a confidence / probability is an integer number of thousandths;     *)
(*   - binary rounding error of the floats (about 1e-13) is below the      *)
(*     resolution of the model.                                            *)
(* Instants.  A datetime is [s, us, tz]: s seconds since                   *)
(* 0001-01-01T00:00:00 (datetime.min), us microseconds, tz "naive" or the  *)
(* text of its UTC offset.  An ISO-8601 text is [t, s, us, sfx]: the       *)
(* digits of the date and time, and the text that follows them.            *)
(***************************************************************************)
EXTENDS Integers, Sequences, FiniteSets, TLC

VARIABLES
    now,              \* the wall clock datetime.utcnow() reads
    pc,               \* per handler: position in predict()
    data,             \* per handler: request.get_json()
    arrival_time,     \* per handler: local of predict()
    current_time,     \* per handler: local of predict()
    response,         \* per handler: the (body, status) predict() returned
    users_db,         \* auth_service.users_db, in insertion order
    email_passwords,  \* auth_service.email_passwords
    auth_response,    \* what the last auth or sync handler returned
    password_owner    \* history: per email, the user whose sign-up or link
                      \* request stored the hash of email_passwords

vars == <<now, pc, data, arrival_time, current_time, response,
          users_db, email_passwords, auth_response,
          password_owner>>

----------------------------------------------------------------------------
\* Bounds of the model

MaxIncidents == 6
MaxCongestion == 7
MaxUsers == 2

\* Units of the fixed-point representation
FracPerSecond == 100000000
MicrosPerSecond == 1000000
TenThousand == 10000

----------------------------------------------------------------------------
\* JSON values of the request body

JInt(n) == [t |-> "int", v |-> n]
\* a JSON number with a fractional part: v + 0.5
JHalf(n) == [t |-> "half", v |-> n]
JStr == [t |-> "str", v |-> 0]
JAbsent == [t |-> "absent", v |-> 0]

IsNumber(j) == j.t \in {"int", "half"}

\* ISO-8601 texts
IsoText(s, us, sfx) == [t |-> "iso", s |-> s, us |-> us, sfx |-> sfx]
BadText == [t |-> "bad", s |-> 0, us |-> 0, sfx |-> ""]
AbsentText == [t |-> "absent", s |-> 0, us |-> 0, sfx |-> ""]

\* datetimes
DateTime(s, us, tz) == [s |-> s, us |-> us, tz |-> tz]
NoDateTime == [s |-> 0, us |-> 0, tz |-> "none"]

\* str.replace('Z', '+00:00') on the text after the digits
ReplaceZ(sfx) ==
    CASE sfx = "Z" -> "+00:00"
      [] sfx = "+00:00Z" -> "+00:00+00:00"
      [] sfx = "+01:00Z" -> "+01:00+00:00"
      [] OTHER -> sfx

\* seconds east of UTC of an aware datetime
UtcOffset(tz) ==
    CASE tz = "+00:00" -> 0
      [] tz = "+01:00" -> 3600
      [] OTHER -> 0

\* datetime.fromisoformat: a datetime, or ValueError
fromisoformat(txt) ==
    IF txt.t = "iso" /\ txt.sfx \in {"", "+00:00", "+01:00"}
    THEN [exc |-> "none",
          dt |-> DateTime(txt.s, txt.us, IF txt.sfx = "" THEN "naive" ELSE txt.sfx)]
    ELSE [exc |-> "ValueError", dt |-> NoDateTime]

\* datetime.isoformat(): the offset follows the digits of an aware datetime
isoformat(dt) == IsoText(dt.s, dt.us, IF dt.tz = "naive" THEN "" ELSE dt.tz)

\* datetime.isoformat() + 'Z'
IsoformatZ(dt) == IsoText(dt.s, dt.us, (IF dt.tz = "naive" THEN "" ELSE dt.tz) \o "Z")

----------------------------------------------------------------------------
\* Python operations on the JSON numbers.  Only congestion_level is given
\* numbers with a fractional part; the other features are JSON integers or
\* JSON strings, so an operand that is not an "int" is a string there.

\* a >= n and a > n for a number a (v, or v + 0.5) and an integer n
GreaterEq(a, n) == a.v >= n
Greater(a, n) == IF a.t = "half" THEN a.v >= n ELSE a.v > n

\* the congestion level used as the index, without min(..., 4)
MinWith4Unclamped(c) == c

\* min(congestion_level, 4): the first argument unless 4 is smaller
MinWith4(c) == IF Greater(c, 4) THEN JInt(4) ELSE c

\* list[i] on a list of 5 entries: the 1-based position, or the exception
ListIndex(i) ==
    CASE i.t # "int" -> [exc |-> "TypeError", pos |-> 0]
      [] i.v >= 0 /\ i.v <= 4 -> [exc |-> "none", pos |-> i.v + 1]
      [] i.v < 0 /\ i.v >= -5 -> [exc |-> "none", pos |-> i.v + 6]
      [] OTHER -> [exc |-> "IndexError", pos |-> 0]

congestion_multipliers == <<100, 105, 115, 130, 150>>
congestion_penalties == <<0, 50, 100, 150, 250>>
traffic_descriptions == <<"clear roads", "light traffic", "moderate traffic",
                          "heavy traffic", "severe traffic">>

----------------------------------------------------------------------------
\* Travel-time estimate

\* weather_multiplier, in hundredths
WeatherMultiplier(precipitation_prob, visibility) ==
    100
    + (IF precipitation_prob > 60 THEN 15
       ELSE IF precipitation_prob > 30 THEN 8 ELSE 0)
    + (IF visibility < 5 THEN 10
       ELSE IF visibility < 10 THEN 5 ELSE 0)

\* congestion_multipliers[min(congestion_level, 4)], in hundredths
CongestionMultiplier(congestion_level) ==
    congestion_multipliers[ListIndex(MinWith4(congestion_level)).pos]

\* the incident adjustment made before the two multipliers
TravelTimeIncidentsFirst(baseline_duration, traffic_delay, incident_count, congestion_level, precipitation_prob, visibility) ==
    (baseline_duration + traffic_delay + incident_count * 120)
        * WeatherMultiplier(precipitation_prob, visibility)
        * CongestionMultiplier(congestion_level)

\* the incident adjustment subtracted
TravelTimeIncidentsSubtracted(baseline_duration, traffic_delay, incident_count, congestion_level, precipitation_prob, visibility) ==
    (baseline_duration + traffic_delay)
        * WeatherMultiplier(precipitation_prob, visibility)
        * CongestionMultiplier(congestion_level)
    - incident_count * 120 * TenThousand

\* travel_time after the incident adjustment, in units of 1e-4 s
TravelTime(baseline_duration, traffic_delay, incident_count, congestion_level, precipitation_prob, visibility) ==
    (baseline_duration + traffic_delay)
        * WeatherMultiplier(precipitation_prob, visibility)
        * CongestionMultiplier(congestion_level)
    + incident_count * 120 * TenThousand

\* a travel time as a duration [s, f]
AsDuration(travel_time) ==
    [s |-> travel_time \div TenThousand,
     f |-> (travel_time % TenThousand) * TenThousand]

----------------------------------------------------------------------------
\* Buffer

base_buffer == 300

\* variability_buffer as a duration: travel_time * 0.15, then * 1.5 and * 1.3
\* under their conditions.  The product travel_time * k is formed in two
\* limbs so that every intermediate stays below 2^31.
VariabilityBuffer(travel_time, congestion_level, precipitation_prob) ==
    LET k == 15 * (IF GreaterEq(congestion_level, 3) THEN 15 ELSE 10)
                * (IF precipitation_prob > 50 THEN 13 ELSE 10)
        hi == (travel_time \div TenThousand) * k
        lo == (travel_time % TenThousand) * k
        fr == (hi % TenThousand) * TenThousand + lo
    IN  [s |-> hi \div TenThousand + fr \div FracPerSecond,
         f |-> fr % FracPerSecond]

\* the risk factors applied to the whole buffer, the 300 s base included
BufferSecondsScaledBase(travel_time, congestion_level, precipitation_prob) ==
    LET vb == VariabilityBuffer(travel_time, congestion_level, precipitation_prob)
        k == (IF GreaterEq(congestion_level, 3) THEN 15 ELSE 10)
             * (IF precipitation_prob > 50 THEN 13 ELSE 10)
    IN  [s |-> (base_buffer * k) \div 100 + vb.s, f |-> vb.f]

\* buffer_seconds = base_buffer + variability_buffer
BufferSeconds(travel_time, congestion_level, precipitation_prob) ==
    LET vb == VariabilityBuffer(travel_time, congestion_level, precipitation_prob)
    IN  [s |-> base_buffer + vb.s, f |-> vb.f]

\* buffer_minutes = int(buffer_seconds / 60)
BufferMinutes(buffer_seconds) == buffer_seconds.s \div 60

\* the total formed from the truncated buffer_minutes
TotalTimeNeededFromMinutes(travel_time, buffer_seconds) ==
    LET t == AsDuration(travel_time)
    IN  [s |-> t.s + (buffer_seconds.s \div 60) * 60, f |-> t.f]

\* total_time_needed = travel_time + buffer_seconds
TotalTimeNeeded(travel_time, buffer_seconds) ==
    LET t == AsDuration(travel_time)
        fr == t.f + buffer_seconds.f
    IN  [s |-> t.s + buffer_seconds.s + fr \div FracPerSecond,
         f |-> fr % FracPerSecond]

\* timedelta(seconds=x): x rounded to the nearest microsecond, ties to even
timedelta(x) ==
    LET q == x.f \div 100
        r == x.f % 100
        us == IF r > 50 \/ (r = 50 /\ q % 2 = 1) THEN q + 1 ELSE q
    IN  [s |-> x.s + us \div MicrosPerSecond, us |-> us % MicrosPerSecond]

\* datetime - timedelta, datetime + timedelta: OverflowError below datetime.min
\* (the tzinfo is carried over, the fields are not converted)
DateTimeMinus(dt, td) ==
    LET borrow == IF dt.us < td.us THEN 1 ELSE 0
        s == dt.s - td.s - borrow
        us == dt.us - td.us + borrow * MicrosPerSecond
    IN  IF s < 0 THEN [exc |-> "OverflowError", dt |-> NoDateTime]
        ELSE [exc |-> "none", dt |-> DateTime(s, us, dt.tz)]

DateTimePlus(dt, td) ==
    LET us == dt.us + td.us
    IN  DateTime(dt.s + td.s + us \div MicrosPerSecond, us % MicrosPerSecond, dt.tz)

\* (arrival_time - current_time).total_seconds() as [s, us], us in 0..999999;
\* TypeError when exactly one of the two carries an offset
TimeUntilArrival(arrival, current) ==
    IF (arrival.tz = "naive") # (current.tz = "naive")
    THEN [exc |-> "TypeError", s |-> 0, us |-> 0]
    ELSE LET a == arrival.s - UtcOffset(arrival.tz)
             c == current.s - UtcOffset(current.tz)
             borrow == IF arrival.us < current.us THEN 1 ELSE 0
         IN  [exc |-> "none", s |-> a - c - borrow,
              us |-> arrival.us - current.us + borrow * MicrosPerSecond]

----------------------------------------------------------------------------
\* Confidence, in thousandths

\* round(x, 2): to the nearest hundredth, ties to even
Round2(x) ==
    LET q == x \div 10
        r == x % 10
    IN  10 * (IF r > 5 \/ (r = 5 /\ q % 2 = 1) THEN q + 1 ELSE q)

Min(a, b) == IF b < a THEN b ELSE a
Max(a, b) == IF b > a THEN b ELSE a

\* time_until_arrival / 3600 > h, for time_until_arrival = [s, us]
HoursUntilGreater(time_until_arrival, h) ==
    \/ time_until_arrival.s > h * 3600
    \/ time_until_arrival.s = h * 3600 /\ time_until_arrival.us > 0

\* the tiers of each penalty added up instead of excluding one another
ConfidenceBeforeClampCumulative(congestion_level, weather_score, precipitation_prob, incident_count, time_until_arrival) ==
    LET c0 == 850
        c1 == c0 - congestion_penalties[ListIndex(MinWith4(congestion_level)).pos]
        c2 == c1 - (IF weather_score < 50 THEN 150 ELSE 0)
                 - (IF weather_score < 70 THEN 80 ELSE 0)
        c3 == c2 - (IF precipitation_prob > 70 THEN 100 ELSE 0)
                 - (IF precipitation_prob > 40 THEN 50 ELSE 0)
        c4 == c3 - Min(150, incident_count * 30)
        c5 == c4 - (IF HoursUntilGreater(time_until_arrival, 4) THEN 100 ELSE 0)
                 - (IF HoursUntilGreater(time_until_arrival, 2) THEN 50 ELSE 0)
    IN  c5

\* lines 230-256: the confidence before the clamp of line 258
ConfidenceBeforeClamp(congestion_level, weather_score, precipitation_prob, incident_count, time_until_arrival) ==
    LET c0 == 850
        c1 == c0 - congestion_penalties[ListIndex(MinWith4(congestion_level)).pos]
        c2 == c1 - (IF weather_score < 50 THEN 150
                    ELSE IF weather_score < 70 THEN 80 ELSE 0)
        c3 == c2 - (IF precipitation_prob > 70 THEN 100
                    ELSE IF precipitation_prob > 40 THEN 50 ELSE 0)
        c4 == c3 - Min(150, incident_count * 30)
        c5 == c4 - (IF HoursUntilGreater(time_until_arrival, 4) THEN 100
                    ELSE IF HoursUntilGreater(time_until_arrival, 2) THEN 50 ELSE 0)
    IN  c5

\* the confidence returned without the clamp of line 258
calculate_confidence_unclamped(congestion_level, weather_score, precipitation_prob, incident_count, time_until_arrival) ==
    ConfidenceBeforeClamp(congestion_level, weather_score, precipitation_prob,
                          incident_count, time_until_arrival)

calculate_confidence(congestion_level, weather_score, precipitation_prob, incident_count, time_until_arrival) ==
    Max(400, Min(980, ConfidenceBeforeClamp(congestion_level, weather_score,
                                            precipitation_prob, incident_count,
                                            time_until_arrival)))

----------------------------------------------------------------------------
\* Explanation

\* ", ".join(parts)
RECURSIVE Join(_)
Join(parts) ==
    IF Len(parts) = 0 THEN ""
    ELSE IF Len(parts) = 1 THEN parts[1]
    ELSE parts[1] \o ", " \o Join(Tail(parts))

generate_explanation(travel_time, buffer_minutes, congestion_level, weather_score, precipitation_prob) ==
    LET travel_mins == travel_time \div (60 * TenThousand)
        traffic == IF Greater(congestion_level, 0)
                   THEN <<traffic_descriptions[ListIndex(MinWith4(congestion_level)).pos]>>
                   ELSE <<>>
        weather == IF precipitation_prob > 50 THEN <<"rain expected">>
                   ELSE IF weather_score < 70 THEN <<"poor weather">>
                   ELSE <<>>
    IN  Join(<<ToString(travel_mins) \o " min travel">>
             \o traffic \o weather
             \o <<ToString(buffer_minutes) \o " min buffer">>)

----------------------------------------------------------------------------
\* Alternatives

Minutes(m) == [s |-> m * 60, us |-> 0]

\* the alternatives with the risky one 5 minutes before the leave time
AlternativesRiskyEarlier(leave_time, confidence) ==
    LET extra == DateTimeMinus(leave_time, Minutes(10))
        safe == DateTimeMinus(leave_time, Minutes(5))
    IN  [exc |-> extra.exc,
         list |-> <<
            [leave_time |-> IsoformatZ(extra.dt),
             arrival_probability |-> Min(980, confidence + 150),
             description |-> "Extra safe: arrive 10 minutes early"],
            [leave_time |-> IsoformatZ(safe.dt),
             arrival_probability |-> Min(950, confidence + 80),
             description |-> "Safe: arrive 5 minutes early"],
            [leave_time |-> IsoformatZ(safe.dt),
             arrival_probability |-> Max(500, confidence - 200),
             description |-> "Risky: might arrive 5 minutes late"] >>]

\* the alternatives with the probabilities neither capped nor floored
AlternativesUncapped(leave_time, confidence) ==
    LET extra == DateTimeMinus(leave_time, Minutes(10))
        safe == DateTimeMinus(leave_time, Minutes(5))
        risky == DateTimePlus(leave_time, Minutes(5))
    IN  IF extra.exc # "none" THEN [exc |-> extra.exc, list |-> <<>>]
        ELSE IF safe.exc # "none" THEN [exc |-> safe.exc, list |-> <<>>]
        ELSE [exc |-> "none", list |-> <<
            [leave_time |-> IsoformatZ(extra.dt),
             arrival_probability |-> confidence + 150,
             description |-> "Extra safe: arrive 10 minutes early"],
            [leave_time |-> IsoformatZ(safe.dt),
             arrival_probability |-> confidence + 80,
             description |-> "Safe: arrive 5 minutes early"],
            [leave_time |-> IsoformatZ(risky),
             arrival_probability |-> confidence - 200,
             description |-> "Risky: might arrive 5 minutes late"] >>]

\* the three alternative leave times; leave_time - 10 min may fall below
\* datetime.min (OverflowError)
Alternatives(leave_time, confidence) ==
    LET extra == DateTimeMinus(leave_time, Minutes(10))
        safe == DateTimeMinus(leave_time, Minutes(5))
        risky == DateTimePlus(leave_time, Minutes(5))
    IN  IF extra.exc # "none" THEN [exc |-> extra.exc, list |-> <<>>]
        ELSE IF safe.exc # "none" THEN [exc |-> safe.exc, list |-> <<>>]
        ELSE [exc |-> "none", list |-> <<
            [leave_time |-> IsoformatZ(extra.dt),
             arrival_probability |-> Min(980, confidence + 150),
             description |-> "Extra safe: arrive 10 minutes early"],
            [leave_time |-> IsoformatZ(safe.dt),
             arrival_probability |-> Min(950, confidence + 80),
             description |-> "Safe: arrive 5 minutes early"],
            [leave_time |-> IsoformatZ(risky),
             arrival_probability |-> Max(500, confidence - 200),
             description |-> "Risky: might arrive 5 minutes late"] >>]

----------------------------------------------------------------------------
\* calculate_leave_time: the prediction dictionary, or the exception raised

NoPrediction ==
    [leave_time |-> AbsentText, confidence |-> 0, explanation |-> "",
     alternative_leaves_times |-> <<>>, buffer_minutes |-> 0,
     calculated_at |-> AbsentText]

Raise(e) == [exc |-> e, value |-> NoPrediction]

calculate_leave_time(arrival, current, distance, baseline_duration, traffic_delay, incident_count, congestion_level, weather_score, precipitation_prob, visibility) ==
    LET idx == ListIndex(MinWith4(congestion_level))
        travel_time == TravelTime(baseline_duration.v, traffic_delay.v,
                                  incident_count.v, congestion_level,
                                  precipitation_prob.v, visibility.v)
        buffer_seconds == BufferSeconds(travel_time, congestion_level,
                                        precipitation_prob.v)
        buffer_minutes == BufferMinutes(buffer_seconds)
        total_time_needed == TotalTimeNeeded(travel_time, buffer_seconds)
        leave_time == DateTimeMinus(arrival, timedelta(total_time_needed))
        time_until_arrival == TimeUntilArrival(arrival, current)
        confidence == calculate_confidence(congestion_level, weather_score.v,
                                           precipitation_prob.v, incident_count.v,
                                           time_until_arrival)
        explanation == generate_explanation(travel_time, buffer_minutes,
                                            congestion_level, weather_score.v,
                                            precipitation_prob.v)
        alternatives == Alternatives(leave_time.dt, confidence)
    IN  CASE baseline_duration.t # "int" \/ traffic_delay.t # "int" -> Raise("TypeError")
          [] precipitation_prob.t # "int" -> Raise("TypeError")
          [] visibility.t # "int" -> Raise("TypeError")
          [] ~IsNumber(congestion_level) -> Raise("TypeError")
          [] idx.exc # "none" -> Raise(idx.exc)
          [] incident_count.t # "int" -> Raise("TypeError")
          [] leave_time.exc # "none" -> Raise(leave_time.exc)
          [] time_until_arrival.exc # "none" -> Raise(time_until_arrival.exc)
          [] weather_score.t # "int" -> Raise("TypeError")
          [] alternatives.exc # "none" -> Raise(alternatives.exc)
          [] OTHER ->
              [exc |-> "none",
               value |-> [leave_time |-> IsoformatZ(leave_time.dt),
                          confidence |-> Round2(confidence),
                          explanation |-> explanation,
                          alternative_leaves_times |-> alternatives.list,
                          buffer_minutes |-> buffer_minutes,
                          calculated_at |-> IsoformatZ(current)]]

----------------------------------------------------------------------------
\* The request bodies

RouteFeatures(distance, baseline_duration, current_traffic_delay, incident_count, congestion_level) ==
    [distance |-> distance, baseline_duration |-> baseline_duration,
     current_traffic_delay |-> current_traffic_delay,
     incident_count |-> incident_count, congestion_level |-> congestion_level]

WeatherFeatures(weather_score, precipitation_probability, visibility) ==
    [weather_score |-> weather_score,
     precipitation_probability |-> precipitation_probability,
     visibility |-> visibility]

\* a JSON object that is absent from the body
AbsentObject == [absent |-> TRUE]

PredictionRequest(origin, destination, arrival, current, route, weather) ==
    [origin |-> origin, destination |-> destination,
     arrival_time |-> arrival, current_time |-> current,
     route_features |-> route, weather_features |-> weather]

NoRequest ==
    PredictionRequest(JAbsent, JAbsent, AbsentText, AbsentText,
                      AbsentObject, AbsentObject)

\* `field not in data`, for the five required fields
MissingField(d, field) ==
    CASE field = "origin" -> d.origin.t = "absent"
      [] field = "destination" -> d.destination.t = "absent"
      [] field = "arrival_time" -> d.arrival_time.t = "absent"
      [] field = "route_features" -> d.route_features = AbsentObject
      [] field = "weather_features" -> d.weather_features = AbsentObject

required_fields ==
    <<"origin", "destination", "arrival_time", "route_features", "weather_features">>

\* the responses
NoResponse == [status |-> 0, error |-> "", result |-> NoPrediction]
ErrorResponse(status, msg) == [status |-> status, error |-> msg, result |-> NoPrediction]
OkResponse(value) == [status |-> 200, error |-> "", result |-> value]

----------------------------------------------------------------------------
\* predict(): the handler of POST /predict, in two steps

Handlers == {"h1", "h2"}

\* the first required field that is missing, 0 if none
FirstMissing(d) ==
    IF \E i \in 1..Len(required_fields) : MissingField(d, required_fields[i])
    THEN CHOOSE i \in 1..Len(required_fields) :
            /\ MissingField(d, required_fields[i])
            /\ \A j \in 1..(i - 1) : ~MissingField(d, required_fields[j])
    ELSE 0

\* a nested feature whose key is absent (KeyError when the arguments of
\* calculate_leave_time are evaluated)
MissingFeature(d) ==
    \/ \E f \in DOMAIN d.route_features : d.route_features[f].t = "absent"
    \/ \E f \in DOMAIN d.weather_features : d.weather_features[f].t = "absent"

\* lines 64-76 as a function of the body and of the wall clock: the response
\* when the handler returns there, else the two parsed instants
ParseRequest(d, clock) ==
    LET missing == FirstMissing(d)
        arrival == fromisoformat([d.arrival_time EXCEPT !.sfx = ReplaceZ(@)])
        text == IF d.current_time.t = "absent" THEN isoformat(clock)
                ELSE d.current_time
        current == fromisoformat([text EXCEPT !.sfx = ReplaceZ(@)])
    IN  IF missing # 0
        THEN [returned |-> TRUE,
              response |-> ErrorResponse(400, "Missing required field: "
                                              \o required_fields[missing]),
              arrival |-> NoDateTime, current |-> NoDateTime]
        ELSE IF arrival.exc # "none" \/ current.exc # "none"
        THEN [returned |-> TRUE,
              response |-> ErrorResponse(500, "Internal server error"),
              arrival |-> NoDateTime, current |-> NoDateTime]
        ELSE [returned |-> FALSE, response |-> NoResponse,
              arrival |-> arrival.dt, current |-> current.dt]

\* the call of lines 79-90 on the body d with the parsed instants
Predict(d, arrival, current) ==
    calculate_leave_time(arrival, current,
                         d.route_features.distance,
                         d.route_features.baseline_duration,
                         d.route_features.current_traffic_delay,
                         d.route_features.incident_count,
                         d.route_features.congestion_level,
                         d.weather_features.weather_score,
                         d.weather_features.precipitation_probability,
                         d.weather_features.visibility)

\* lines 79-97 as a function: the response of the handler
CalculateResponse(d, arrival, current) ==
    IF MissingFeature(d)
    THEN ErrorResponse(400, "Invalid data format")
    ELSE LET r == Predict(d, arrival, current)
         IN  IF r.exc # "none"
             THEN ErrorResponse(500, "Internal server error")
             ELSE OkResponse(r.value)

\* the response kept in one place for all handlers
FinishShared(h, resp) ==
    /\ response' = [g \in Handlers |-> IF g = h \/ pc[g] = "done" THEN resp
                                       ELSE response[g]]
    /\ pc' = [pc EXCEPT ![h] = "done"]

\* the handler returns resp
Finish(h, resp) ==
    /\ response' = [response EXCEPT ![h] = resp]
    /\ pc' = [pc EXCEPT ![h] = "done"]

\* lines 64-76: get_json, the required fields, the two instants
PredictParse(h) ==
    /\ pc[h] = "received"
    /\ LET p == ParseRequest(data[h], now)
       IN  IF p.returned
           THEN /\ Finish(h, p.response)
                /\ UNCHANGED <<arrival_time, current_time>>
           ELSE /\ arrival_time' = [arrival_time EXCEPT ![h] = p.arrival]
                /\ current_time' = [current_time EXCEPT ![h] = p.current]
                /\ pc' = [pc EXCEPT ![h] = "parsed"]
                /\ UNCHANGED response
    /\ UNCHANGED <<now, data, users_db, email_passwords, auth_response,
          password_owner>>

\* lines 79-97: the call of calculate_leave_time and the response
PredictCalculate(h) ==
    /\ pc[h] = "parsed"
    /\ Finish(h, CalculateResponse(data[h], arrival_time[h], current_time[h]))
    /\ UNCHANGED <<now, data, arrival_time, current_time, users_db, email_passwords,
                   auth_response, password_owner>>

----------------------------------------------------------------------------
\* The requests of the model

Place == [t |-> "str", v |-> 0]

Baselines == {1, 1800}
Delays == {0, 300}
Incidents == 0..MaxIncidents
CongestionLevels == 0..MaxCongestion
WeatherScores == {40, 60, 90}
Precipitations == {10, 35, 45, 55, 65, 80}
Visibilities == {3, 7, 15}

\* 0001-01-01T05:33:20, and the instants 5 h 30 min, 4 h and 3 h before it
\* and 1 h 23 min 20 s after it
ArrivalText == IsoText(20000, 0, "")
CurrentTexts ==
    {AbsentText, IsoText(200, 0, ""), IsoText(5600, 0, ""), IsoText(9200, 500000, ""),
     IsoText(12800, 0, ""), IsoText(25000, 0, "")}

\* the requests of the data model: every field present, integer features in
\* their domains, congestion_level any integer >= 0
ValidRequests ==
    { PredictionRequest(Place, Place, ArrivalText, cur,
                        RouteFeatures(JInt(5000), JInt(b), JInt(d), JInt(n), JInt(c)),
                        WeatherFeatures(JInt(w), JInt(p), JInt(v))) :
        cur \in CurrentTexts, b \in Baselines, d \in Delays, n \in Incidents,
        c \in CongestionLevels, w \in WeatherScores, p \in Precipitations,
        v \in Visibilities }


----------------------------------------------------------------------------
\* The auth stores (auth_service.py).  A user record keeps the fields the
\* handlers decide on: user_id, email, providers, trips.  users_db is the
\* sequence of the records in insertion order (the order users_db.values()
\* iterates in).

NoEmail == "None"
Emails == {"a@x.org", "b@x.org"}
Passwords == {"pw1", "pw2"}
FirebaseUids == {"uid1"}
EmailUserIds == <<"email_1", "email_2", "email_3">>
TripLists == {<<>>, <<"trip1">>}

\* bcrypt: a hash verifies exactly the password it was made from
hash_password(password) == [of |-> password]
NoHash == [of |-> ""]
verify_password(password, hashed) == hashed.of = password

NoPasswords == [e \in Emails |-> NoHash]
NoOwners == [e \in Emails |-> ""]

UserIds(db) == {db[i].user_id : i \in 1..Len(db)}
IndexOf(db, user_id) == CHOOSE i \in 1..Len(db) : db[i].user_id = user_id
Contains(seq, x) == \E i \in 1..Len(seq) : seq[i] = x

\* create_user: the stores after it, and the user it returns
create_user(db, user_id, email, provider) ==
    IF user_id \in UserIds(db)
    THEN LET i == IndexOf(db, user_id)
             providers == IF Contains(db[i].providers, provider)
                          THEN db[i].providers
                          ELSE Append(db[i].providers, provider)
         IN  [db EXCEPT ![i].providers = providers]
    ELSE Append(db, [user_id |-> user_id, email |-> email,
                     providers |-> <<provider>>, trips |-> <<>>])

AuthResponse(status, user_id) == [status |-> status, user_id |-> user_id]
NoAuthResponse == AuthResponse(0, "")

\* secrets.token_hex: an id no user has yet
FreshUserId(db) ==
    EmailUserIds[CHOOSE i \in 1..Len(EmailUserIds) :
                    /\ EmailUserIds[i] \notin UserIds(db)
                    /\ \A j \in 1..(i - 1) : EmailUserIds[j] \in UserIds(db)]

PredictUnchanged == UNCHANGED <<now, pc, data, arrival_time, current_time, response>>

\* POST /auth/apple and /auth/google: authenticate_with_apple / _google with
\* the verified uid and the email of the request or of the token
AuthProvider(uid, email, provider) ==
    /\ uid \in UserIds(users_db) \/ Len(users_db) < MaxUsers
    /\ users_db' = create_user(users_db, uid, email, provider)
    /\ auth_response' = AuthResponse(200, uid)
    /\ UNCHANGED <<email_passwords, password_owner>>
    /\ PredictUnchanged

\* POST /auth/email/signup: create_email_user
AuthEmailSignup(email, password) ==
    /\ email_passwords[email] # NoHash \/ Len(users_db) < MaxUsers
    /\ IF email_passwords[email] # NoHash
       THEN /\ auth_response' = AuthResponse(409, "")
            /\ UNCHANGED <<users_db, email_passwords, password_owner>>
       ELSE LET user_id == FreshUserId(users_db)
            IN  /\ email_passwords' =
                       [email_passwords EXCEPT ![email] = hash_password(password)]
                /\ password_owner' = [password_owner EXCEPT ![email] = user_id]
                /\ users_db' = create_user(users_db, user_id, email, "password")
                /\ auth_response' = AuthResponse(201, user_id)
    /\ PredictUnchanged

\* next(u for u in users_db.values() if u.get('email') == email), 0 if none
FirstUserWithEmail(db, email) ==
    IF \E i \in 1..Len(db) : db[i].email = email
    THEN CHOOSE i \in 1..Len(db) :
            /\ db[i].email = email
            /\ \A j \in 1..(i - 1) : db[j].email # email
    ELSE 0

\* POST /auth/email/signin: authenticate_with_email
AuthEmailSignin(email, password) ==
    /\ LET i == FirstUserWithEmail(users_db, email)
       IN  auth_response' =
               IF email_passwords[email] = NoHash THEN AuthResponse(404, "")
               ELSE IF ~verify_password(password, email_passwords[email])
               THEN AuthResponse(401, "")
               ELSE IF i = 0 THEN AuthResponse(404, "")
               ELSE AuthResponse(200, users_db[i].user_id)
    /\ UNCHANGED <<users_db, email_passwords, password_owner>>
    /\ PredictUnchanged

\* link_provider_to_user: the stores after it, or ValueError
link_provider_to_user(db, user_id, provider, email) ==
    IF user_id \notin UserIds(db) THEN [exc |-> "ValueError", db |-> db]
    ELSE LET i == IndexOf(db, user_id)
         IN  IF Contains(db[i].providers, provider)
             THEN [exc |-> "ValueError", db |-> db]
             ELSE [exc |-> "none",
                   db |-> [db EXCEPT
                             ![i].providers = Append(@, provider),
                             ![i].email = IF email # NoEmail /\ @ = NoEmail
                                          THEN email ELSE @]]

\* POST /auth/link for the user of the bearer token
AuthLink(user_id, provider, email, password) ==
    /\ user_id \in UserIds(users_db)
    /\ IF provider = "password" /\ email_passwords[email] # NoHash
       THEN /\ auth_response' = AuthResponse(409, "")
            /\ UNCHANGED <<users_db, email_passwords, password_owner>>
       ELSE LET r == link_provider_to_user(users_db, user_id, provider, email)
            IN  /\ email_passwords' =
                       IF provider = "password"
                       THEN [email_passwords EXCEPT ![email] = hash_password(password)]
                       ELSE email_passwords
                /\ password_owner' =
                       IF provider = "password"
                       THEN [password_owner EXCEPT ![email] = user_id]
                       ELSE password_owner
                /\ users_db' = r.db
                /\ auth_response' = IF r.exc = "none" THEN AuthResponse(200, user_id)
                                    ELSE AuthResponse(400, "")
    /\ PredictUnchanged

\* POST /sync/trips for the user of the bearer token
SyncSaveTrips(user_id, trips) ==
    /\ user_id \in UserIds(users_db)
    /\ users_db' = [users_db EXCEPT ![IndexOf(users_db, user_id)].trips = trips]
    /\ auth_response' = AuthResponse(200, user_id)
    /\ UNCHANGED <<email_passwords, password_owner>>
    /\ PredictUnchanged

----------------------------------------------------------------------------
\* The prediction engine on its own: one handler, one valid request

InitHandlers(reqs) ==
    /\ pc = [h \in Handlers |-> IF h = "h1" THEN "received" ELSE "off"]
    /\ \E r \in reqs : data = [h \in Handlers |-> IF h = "h1" THEN r ELSE NoRequest]
    /\ arrival_time = [h \in Handlers |-> NoDateTime]
    /\ current_time = [h \in Handlers |-> NoDateTime]
    /\ response = [h \in Handlers |-> NoResponse]
    /\ users_db = <<>>
    /\ email_passwords = NoPasswords
    /\ auth_response = NoAuthResponse
    /\ password_owner = NoOwners

Init ==
    /\ now = DateTime(19000, 123456, "naive")
    /\ InitHandlers(ValidRequests)

Next ==
    \/ \E h \in Handlers : PredictParse(h)
    \/ \E h \in Handlers : PredictCalculate(h)

Spec == Init /\ [][Next]_vars


----------------------------------------------------------------------------
\* The handler on request bodies with a defect or an edge value

GoodRoute == RouteFeatures(JInt(5000), JInt(1800), JInt(300), JInt(0), JInt(0))
GoodWeather == WeatherFeatures(JInt(90), JInt(10), JInt(15))

EdgeCongestionLevels ==
    {JInt(-6), JInt(-5), JInt(-1), JInt(0), JInt(MaxCongestion),
     JHalf(2), JHalf(4), JStr, JAbsent}

HttpRoutes ==
    {AbsentObject}
    \cup {[GoodRoute EXCEPT !.congestion_level = c] : c \in EdgeCongestionLevels}
    \cup {[GoodRoute EXCEPT ![f] = x] :
            f \in {"distance", "baseline_duration", "current_traffic_delay",
                   "incident_count"},
            x \in {JStr, JAbsent}}

HttpWeathers ==
    {AbsentObject, GoodWeather}
    \cup {[GoodWeather EXCEPT ![f] = x] :
            f \in DOMAIN GoodWeather, x \in {JStr, JAbsent}}

HttpPlaces == {<<Place, Place>>, <<JAbsent, Place>>, <<Place, JAbsent>>}

\* arrival_time: absent, not ISO-8601, without offset, with 'Z', with an
\* explicit offset, and two instants of the first hour of 0001-01-01
HttpArrivalTexts ==
    {AbsentText, BadText, IsoText(20000, 0, ""), IsoText(20000, 0, "Z"),
     IsoText(20000, 0, "+01:00"), IsoText(100, 0, ""), IsoText(2800, 0, "")}

HttpCurrentTexts ==
    {AbsentText, BadText, IsoText(9200, 0, ""), IsoText(9200, 0, "Z"),
     IsoText(9200, 0, "+01:00")}

HttpRequests ==
    { PredictionRequest(pl[1], pl[2], arr, cur, route, weather) :
        pl \in HttpPlaces, arr \in HttpArrivalTexts, cur \in HttpCurrentTexts,
        route \in HttpRoutes, weather \in HttpWeathers }

ClockTimes == <<DateTime(12000, 0, "naive"), DateTime(19000, 123456, "naive")>>

InitHttp ==
    /\ \E i \in 1..Len(ClockTimes) : now = ClockTimes[i]
    /\ InitHandlers(HttpRequests)

SpecHttp == InitHttp /\ [][Next]_vars

----------------------------------------------------------------------------
\* Concurrent predict handlers next to the auth and sync handlers

ConcRequests ==
    { PredictionRequest(Place, Place, ArrivalText, cur, route, GoodWeather) :
        cur \in {AbsentText, IsoText(9200, 500000, "")},
        route \in {GoodRoute, [GoodRoute EXCEPT !.congestion_level = JInt(4)]} }

\* a request arrives at an idle handler
Receive(h) ==
    /\ pc[h] = "idle"
    /\ \E r \in ConcRequests : data' = [data EXCEPT ![h] = r]
    /\ pc' = [pc EXCEPT ![h] = "received"]
    /\ UNCHANGED <<now, arrival_time, current_time, response,
                   users_db, email_passwords, auth_response,
          password_owner>>

\* the wall clock advances
Tick ==
    /\ \E i \in 1..(Len(ClockTimes) - 1) :
          /\ now = ClockTimes[i]
          /\ now' = ClockTimes[i + 1]
    /\ UNCHANGED <<pc, data, arrival_time, current_time, response,
                   users_db, email_passwords, auth_response,
          password_owner>>

InitConc ==
    /\ now = ClockTimes[1]
    /\ pc = [h \in Handlers |-> "idle"]
    /\ data = [h \in Handlers |-> NoRequest]
    /\ arrival_time = [h \in Handlers |-> NoDateTime]
    /\ current_time = [h \in Handlers |-> NoDateTime]
    /\ response = [h \in Handlers |-> NoResponse]
    /\ users_db = <<>>
    /\ email_passwords = NoPasswords
    /\ auth_response = NoAuthResponse
    /\ password_owner = NoOwners

ConcEmails == {"a@x.org"}
ConcPasswords == {"pw1"}

ProviderNext(uids, emails) ==
    \/ \E uid \in uids, email \in emails \cup {NoEmail} :
          AuthProvider(uid, email, "apple.com")
    \/ \E uid \in uids, email \in emails \cup {NoEmail} :
          AuthProvider(uid, email, "google.com")

EmailNext(emails, passwords) ==
    \/ \E email \in emails, password \in passwords :
          AuthEmailSignup(email, password)
    \/ \E email \in emails, password \in passwords :
          AuthEmailSignin(email, password)

LinkNext(emails, passwords) ==
    \/ \E user_id \in UserIds(users_db), provider \in {"apple", "google"},
          email \in emails \cup {NoEmail} :
          AuthLink(user_id, provider, email, "")
    \/ \E user_id \in UserIds(users_db), email \in emails, password \in passwords :
          AuthLink(user_id, "password", email, password)

SyncNext ==
    \E user_id \in UserIds(users_db), trips \in TripLists :
        SyncSaveTrips(user_id, trips)

NextConc ==
    \/ \E h \in Handlers : Receive(h)
    \/ \E h \in Handlers : PredictParse(h)
    \/ \E h \in Handlers : PredictCalculate(h)
    \/ Tick
    \/ EmailNext(ConcEmails, ConcPasswords)
    \/ LinkNext(ConcEmails, ConcPasswords)
    \/ SyncNext

SpecConc == InitConc /\ [][NextConc]_vars


----------------------------------------------------------------------------
\* The auth handlers on their own

InitAuth == InitConc

NextAuth ==
    \/ ProviderNext(FirebaseUids, Emails)
    \/ EmailNext(Emails, Passwords)
    \/ LinkNext(Emails, Passwords)

SpecAuth == InitAuth /\ [][NextAuth]_vars


----------------------------------------------------------------------------
\* Properties

Done(h) == pc[h] = "done"
Ok(h) == response[h].status = 200
Result(h) == response[h].result

NumberFields(d) ==
    {d.route_features.distance, d.route_features.baseline_duration,
     d.route_features.current_traffic_delay, d.route_features.incident_count,
     d.route_features.congestion_level, d.weather_features.weather_score,
     d.weather_features.precipitation_probability, d.weather_features.visibility}

ParsableText(txt) == txt.t = "iso" /\ txt.sfx \in {"", "Z", "+00:00", "+01:00"}

\* a request of the data model: every required field present, the instants
\* ISO-8601, the features integers, the route numbers non-negative, the two
\* scores in 0..100
ValidRequest(d) ==
    /\ FirstMissing(d) = 0
    /\ ~MissingFeature(d)
    /\ ParsableText(d.arrival_time)
    /\ d.current_time.t = "absent" \/ ParsableText(d.current_time)
    /\ \A x \in NumberFields(d) : x.t = "int" /\ x.v >= 0
    /\ d.weather_features.weather_score.v <= 100
    /\ d.weather_features.precipitation_probability.v <= 100

Baseline(d) == d.route_features.baseline_duration.v
Delay(d) == d.route_features.current_traffic_delay.v
IncidentCount(d) == d.route_features.incident_count.v
Congestion(d) == d.route_features.congestion_level
WeatherScore(d) == d.weather_features.weather_score.v
Precipitation(d) == d.weather_features.precipitation_probability.v
Visibility(d) == d.weather_features.visibility.v

TravelTimeOf(d) ==
    TravelTime(Baseline(d), Delay(d), IncidentCount(d), Congestion(d),
               Precipitation(d), Visibility(d))
BufferSecondsOf(d) == BufferSeconds(TravelTimeOf(d), Congestion(d), Precipitation(d))
ConfidenceOf(d, arrival, current) ==
    calculate_confidence(Congestion(d), WeatherScore(d), Precipitation(d),
                         IncidentCount(d), TimeUntilArrival(arrival, current))

\* C1: for every valid request the confidence calculate_confidence computes,
\* and the confidence of the result, lie in [0.40, 0.98].
C1_ConfidenceInRange ==
    \A h \in Handlers :
        /\ pc[h] = "parsed" /\ ValidRequest(data[h])
              /\ TimeUntilArrival(arrival_time[h], current_time[h]).exc = "none"
           => ConfidenceOf(data[h], arrival_time[h], current_time[h]) \in 400..980
        /\ Done(h) /\ Ok(h) /\ ValidRequest(data[h])
           => Result(h).confidence \in 400..980

\* a valid request whose penalties sum to more than 0.45 got confidence 0.40
C1_Witness ==
    \E h \in Handlers :
        /\ Done(h) /\ Ok(h) /\ ValidRequest(data[h])
        /\ ConfidenceBeforeClamp(Congestion(data[h]), WeatherScore(data[h]),
                                 Precipitation(data[h]), IncidentCount(data[h]),
                                 TimeUntilArrival(arrival_time[h], current_time[h])) < 400
        /\ Result(h).confidence = 400

\* leave_time + travel_time + buffer_seconds - arrival_time, as [s, f] with f
\* in units of 1e-8 s (f may be negative); the two durations are added to the
\* leave time one after the other
LeaveTimeDrift(h) ==
    LET d == data[h]
        t == AsDuration(TravelTimeOf(d))
        b == BufferSecondsOf(d)
        leave == Result(h).leave_time
    IN  [s |-> leave.s + t.s + b.s - arrival_time[h].s,
         f |-> leave.us * 100 - arrival_time[h].us * 100 + t.f + b.f]

\* C2 as stated: leaveTime + travelTime + bufferSeconds == arrivalTime exactly
C2_ExactSum ==
    \A h \in Handlers :
        Done(h) /\ Ok(h) /\ ValidRequest(data[h])
        => LET x == LeaveTimeDrift(h)
           IN  \/ x.s = 0 /\ x.f = 0
               \/ x.s = -1 /\ x.f = FracPerSecond
               \/ x.s = -2 /\ x.f = 2 * FracPerSecond

\* C2 amended: leaveTime + travelTime + bufferSeconds differs from arrivalTime
\* by at most half a microsecond (leave_time is arrival_time minus the total
\* rounded to the microsecond by timedelta); the un-truncated buffer_seconds
\* is the one subtracted.
C2_SumWithinHalfMicrosecond ==
    \A h \in Handlers :
        Done(h) /\ Ok(h) /\ ValidRequest(data[h])
        => LET x == LeaveTimeDrift(h)
           IN  \/ x.s = 0 /\ x.f \in -50..50
               \/ x.s = -1 /\ x.f - FracPerSecond \in -50..50
               \/ x.s = -2 /\ x.f - 2 * FracPerSecond \in -50..50

\* a result whose total time has a part below the microsecond, and whose
\* buffer is not a whole number of minutes
C2_Witness ==
    \E h \in Handlers :
        /\ Done(h) /\ Ok(h) /\ ValidRequest(data[h])
        /\ TotalTimeNeeded(TravelTimeOf(data[h]), BufferSecondsOf(data[h])).f % 100 # 0
        /\ BufferSecondsOf(data[h]).s % 60 # 0


\* a request the validation has to reject: a required field or a nested
\* feature missing, an instant that is not ISO-8601, or a feature that is
\* not a number
InvalidRequest(d) ==
    \/ FirstMissing(d) # 0
    \/ /\ FirstMissing(d) = 0
       /\ \/ MissingFeature(d)
          \/ ~ParsableText(d.arrival_time)
          \/ d.current_time.t # "absent" /\ ~ParsableText(d.current_time)
          \/ \E x \in NumberFields(d) : x.t = "str"

\* C3: every request with a missing required field or nested feature, an
\* unparsable instant or a non-numeric feature is rejected with the client
\* error (400) and without a prediction result.
C3_InvalidRequestRejected ==
    \A h \in Handlers :
        Done(h) /\ InvalidRequest(data[h])
        => response[h].status = 400 /\ Result(h) = NoPrediction

\* a request that passes validation: every required field and nested feature
\* present, both instants parsable, every feature a number
PassesValidation(d) ==
    /\ FirstMissing(d) = 0
    /\ ~MissingFeature(d)
    /\ ParsableText(d.arrival_time)
    /\ d.current_time.t = "absent" \/ ParsableText(d.current_time)
    /\ \A x \in NumberFields(d) : IsNumber(x)

CompleteResult(r) ==
    /\ r.leave_time.t = "iso"
    /\ r.calculated_at.t = "iso"
    /\ r.explanation # ""
    /\ Len(r.alternative_leaves_times) = 3

\* C4: a request that passes validation never ends in the internal server
\* error and always gets a complete result, whatever the numbers are.
C4_TotalAfterValidation ==
    \A h \in Handlers :
        Done(h) /\ PassesValidation(data[h])
        => response[h].status = 200 /\ CompleteResult(Result(h))

\* the arrival time is late enough in year 1 for every leave time to be a
\* datetime
LeaveTimesRepresentable(d) == d.arrival_time.s >= 20000

\* C5: a valid request without current_time (its arrival_time with or
\* without 'Z' or a UTC offset) succeeds, with the wall clock of the call as
\* current time, echoed in calculated_at.
C5_CurrentTimeDefaultsToNow ==
    \A h \in Handlers :
        /\ Done(h) /\ ValidRequest(data[h]) /\ data[h].current_time.t = "absent"
        /\ LeaveTimesRepresentable(data[h])
        => /\ response[h].status = 200
           /\ Result(h).calculated_at.s = now.s
           /\ Result(h).calculated_at.us = now.us


\* the instant of an ISO text a is before that of b by exactly n seconds
SecondsApart(a, b, n) == b.s - a.s = n /\ b.us = a.us

\* C6: the result of a valid request holds exactly three alternatives, in the
\* order extra-safe, safe, risky, at 10 min and 5 min before and 5 min after
\* the leave time, so extraSafe < safe < leaveTime < risky.
C6_AlternativesOrdered ==
    \A h \in Handlers :
        Done(h) /\ Ok(h) /\ ValidRequest(data[h])
        => LET alts == Result(h).alternative_leaves_times
               leave == Result(h).leave_time
           IN  /\ Len(alts) = 3
               /\ alts[1].description = "Extra safe: arrive 10 minutes early"
               /\ alts[2].description = "Safe: arrive 5 minutes early"
               /\ alts[3].description = "Risky: might arrive 5 minutes late"
               /\ SecondsApart(alts[1].leave_time, leave, 600)
               /\ SecondsApart(alts[2].leave_time, leave, 300)
               /\ SecondsApart(leave, alts[3].leave_time, 300)
               /\ alts[1].leave_time.s < alts[2].leave_time.s
               /\ alts[2].leave_time.s < leave.s
               /\ leave.s < alts[3].leave_time.s

\* a result with its alternatives, the leave time not on a whole second
C6_Witness ==
    \E h \in Handlers :
        /\ Done(h) /\ Ok(h) /\ ValidRequest(data[h])
        /\ Len(Result(h).alternative_leaves_times) = 3
        /\ Result(h).leave_time.us # 0

\* the request d with another incident count / congestion level
WithIncidents(d, n) == [d EXCEPT !.route_features.incident_count = JInt(n)]
WithCongestion(d, c) == [d EXCEPT !.route_features.congestion_level = JInt(c)]

\* instant a is not later than instant b
NotLater(a, b) == a.s < b.s \/ (a.s = b.s /\ a.us <= b.us)

\* C7: with everything else fixed, a larger incidentCount never gives a
\* smaller travel time, a larger confidence or a later leave time.
C7_MonotoneInIncidents ==
    \A h \in Handlers :
        Done(h) /\ Ok(h) /\ ValidRequest(data[h])
        => \A n \in Incidents :
              LET d1 == data[h]
                  d2 == WithIncidents(d1, n)
                  r2 == Predict(d2, arrival_time[h], current_time[h])
              IN  n >= IncidentCount(d1)
                  => /\ TravelTimeOf(d2) >= TravelTimeOf(d1)
                     /\ ConfidenceOf(d2, arrival_time[h], current_time[h])
                           <= ConfidenceOf(d1, arrival_time[h], current_time[h])
                     /\ r2.exc = "none"
                     /\ r2.value.confidence <= Result(h).confidence
                     /\ NotLater(r2.value.leave_time, Result(h).leave_time)

\* a result for which one more incident gives a strictly larger travel time
\* and a strictly smaller confidence
C7_Witness ==
    \E h \in Handlers :
        /\ Done(h) /\ Ok(h) /\ ValidRequest(data[h])
        /\ IncidentCount(data[h]) < MaxIncidents
        /\ LET d2 == WithIncidents(data[h], IncidentCount(data[h]) + 1)
           IN  /\ TravelTimeOf(d2) > TravelTimeOf(data[h])
               /\ Predict(d2, arrival_time[h], current_time[h]).value.confidence
                     < Result(h).confidence

\* C8: a request with congestionLevel >= 4 gets the response the same request
\* gets with congestionLevel = 4, in every field.
C8_ClampOnOverflow ==
    \A h \in Handlers :
        /\ Done(h) /\ ValidRequest(data[h])
        /\ Congestion(data[h]).v >= 4
        => response[h] = CalculateResponse(WithCongestion(data[h], 4),
                                           arrival_time[h], current_time[h])

\* a result for a congestion level above 4
C8_Witness ==
    \E h \in Handlers :
        /\ Done(h) /\ Ok(h) /\ ValidRequest(data[h])
        /\ Congestion(data[h]).v > 4

\* the handler run on its own on the body d, reading the wall clock clock
RunAlone(d, clock) ==
    LET p == ParseRequest(d, clock)
    IN  IF p.returned THEN p.response
        ELSE CalculateResponse(d, p.arrival, p.current)

\* the wall clock handler h read: its current time when the body has none
ClockRead(h) ==
    IF data[h].current_time.t = "absent" /\ current_time[h] # NoDateTime
    THEN current_time[h]
    ELSE now

PredictStep == \E h \in Handlers : PredictParse(h) \/ PredictCalculate(h)

\* C9: whatever the other predict, auth and sync handlers do meanwhile, a
\* predict call returns the response it returns when run alone on the same
\* body and current time, and its steps leave users_db and email_passwords
\* unchanged.
C9_PredictStateless ==
    /\ [](\A h \in Handlers :
            /\ pc[h] = "parsed"
               => LET p == ParseRequest(data[h], ClockRead(h))
                  IN  /\ ~p.returned
                      /\ arrival_time[h] = p.arrival
                      /\ current_time[h] = p.current
            /\ Done(h) => response[h] = RunAlone(data[h], ClockRead(h)))
    /\ [][PredictStep => UNCHANGED <<users_db, email_passwords>>]_vars

\* both handlers have returned different results, on different readings of
\* the clock, while a user signed up and saved trips
C9_Witness ==
    /\ Done("h1") /\ Done("h2") /\ Ok("h1") /\ Ok("h2")
    /\ Result("h1") # Result("h2")
    /\ data["h1"].current_time.t = "absent" /\ data["h2"].current_time.t = "absent"
    /\ current_time["h1"] # current_time["h2"]
    /\ Len(users_db) > 0
    /\ users_db[1].trips # <<>>
    /\ email_passwords # NoPasswords

\* C10: travelTime = ((baselineDuration + currentTrafficDelay)
\* * weatherMultiplier * congestionMultiplier) + incidentCount * 120, the
\* weather multiplier 1.0 plus the precipitation and the visibility additions,
\* the congestion multiplier the table entry of the level; the incident
\* penalty is not scaled.  (Travel time in units of 1e-4 s, multipliers in
\* hundredths.)
C10_TravelTimeFormula ==
    \A h \in Handlers :
        Done(h) /\ Ok(h) /\ ValidRequest(data[h])
        => LET d == data[h]
               p == Precipitation(d)
               v == Visibility(d)
               c == Congestion(d).v
               wm == 100 + (IF p > 60 THEN 15 ELSE IF p > 30 THEN 8 ELSE 0)
                         + (IF v < 5 THEN 10 ELSE IF v < 10 THEN 5 ELSE 0)
               cm == <<100, 105, 115, 130, 150>>[IF c > 4 THEN 5 ELSE c + 1]
           IN  /\ TravelTimeOf(d)
                    = (Baseline(d) + Delay(d)) * wm * cm
                      + IncidentCount(d) * 120 * 10000
               /\ Baseline(d) = 1800 /\ Delay(d) = 300 /\ wm = 100 /\ cm = 100
                  /\ IncidentCount(d) = 0
                  => TravelTimeOf(d) = 2100 * 10000
               /\ p = 80 /\ v = 3 => WeatherMultiplier(p, v) = 125

\* a result with incidents and both multipliers above 1
C10_Witness ==
    \E h \in Handlers :
        /\ Done(h) /\ Ok(h) /\ ValidRequest(data[h])
        /\ IncidentCount(data[h]) > 0
        /\ WeatherMultiplier(Precipitation(data[h]), Visibility(data[h])) = 125
        /\ Congestion(data[h]).v >= 4
        /\ TravelTimeOf(data[h]) = (1800 + 300) * 125 * 150 + 2 * 120 * 10000


\* C11: bufferSeconds = 300 + travelTime * 0.15 * (1.5 if congestionLevel >= 3)
\* * (1.3 if precipitationProbability > 50): the two factors compound and
\* scale the variable part only; bufferMinutes is bufferSeconds / 60 rounded
\* down; travelTime 2100 without a risk factor gives 615 s and 10 minutes.
\* (k is the product of the factors in units of 1e-4; the product
\* travelTime * k is compared limb by limb.)
C11_BufferFormula ==
    \A h \in Handlers :
        Done(h) /\ Ok(h) /\ ValidRequest(data[h])
        => LET d == data[h]
               T == TravelTimeOf(d)
               c == Congestion(d).v
               p == Precipitation(d)
               k == 15 * (IF c >= 3 THEN 15 ELSE 10) * (IF p > 50 THEN 13 ELSE 10)
               th == T \div 10000
               tl == T % 10000
               b == BufferSecondsOf(d)
               m == Result(h).buffer_minutes
           IN  /\ b.f \in 0..(FracPerSecond - 1)
               /\ (b.s - 300) * 10000 + b.f \div 10000
                    = th * k + (tl * k) \div 10000
               /\ b.f % 10000 = (tl * k) % 10000
               /\ 60 * m <= b.s /\ b.s < 60 * (m + 1)
               /\ T = 2100 * 10000 /\ c < 3 /\ p <= 50
                  => b = [s |-> 615, f |-> 0] /\ m = 10

\* a result with both risk factors applied whose buffer is one second and a
\* fraction short of the next whole minute
C11_Witness ==
    /\ \E h \in Handlers :
        /\ Done(h) /\ Ok(h) /\ ValidRequest(data[h])
        /\ Congestion(data[h]).v >= 3 /\ Precipitation(data[h]) > 50
        /\ BufferSecondsOf(data[h]).s % 60 = 59
        /\ BufferSecondsOf(data[h]).f # 0
        /\ Result(h).buffer_minutes * 60 + 59 = BufferSecondsOf(data[h]).s


\* C12: confidence = clamp(0.85 - congestionPenalty - weatherPenalty
\* - precipitationPenalty - min(0.15, incidentCount * 0.03) - horizonPenalty,
\* 0.40, 0.98): the congestion penalty is the table entry of the level
\* (index 4 from level 4 on), weather 0.15 below 50 else 0.08 below 70,
\* precipitation 0.10 above 70 else 0.05 above 40, horizon 0.10 with more
\* than 14400 s until arrival else 0.05 with more than 7200 s; the tiers of
\* a pair exclude one another; an arrival not after the current time gets no
\* horizon penalty and no error.  (Confidence in thousandths.)
C12_ConfidenceFormula ==
    \A h \in Handlers :
        Done(h) /\ ValidRequest(data[h])
        => LET d == data[h]
               c == Congestion(d).v
               w == WeatherScore(d)
               p == Precipitation(d)
               n == IncidentCount(d)
               su == TimeUntilArrival(arrival_time[h], current_time[h])
               MoreThan(x) == su.s > x \/ (su.s = x /\ su.us > 0)
               congestionPenalty == <<0, 50, 100, 150, 250>>[IF c >= 4 THEN 5 ELSE c + 1]
               weatherPenalty == IF w < 50 THEN 150 ELSE IF w < 70 THEN 80 ELSE 0
               precipitationPenalty == IF p > 70 THEN 100 ELSE IF p > 40 THEN 50 ELSE 0
               incidentPenalty == IF n * 30 > 150 THEN 150 ELSE n * 30
               horizonPenalty == IF MoreThan(14400) THEN 100
                                 ELSE IF MoreThan(7200) THEN 50 ELSE 0
               raw == 850 - congestionPenalty - weatherPenalty
                          - precipitationPenalty - incidentPenalty - horizonPenalty
               clamped == IF raw < 400 THEN 400 ELSE IF raw > 980 THEN 980 ELSE raw
           IN  /\ Ok(h)
               /\ Result(h).confidence = clamped
               /\ ~MoreThan(0) => horizonPenalty = 0

\* a result exactly 14400 s before the arrival (the 0.05 horizon tier) with
\* the top weather and precipitation tiers: 0.85 - 0.05 - 0.15 - 0.10 - 0.06
\* - 0.05 = 0.44
C12_Witness ==
    \E h \in Handlers :
        /\ Done(h) /\ Ok(h) /\ ValidRequest(data[h])
        /\ TimeUntilArrival(arrival_time[h], current_time[h])
             = [exc |-> "none", s |-> 14400, us |-> 0]
        /\ Congestion(data[h]).v = 1 /\ WeatherScore(data[h]) = 40
        /\ Precipitation(data[h]) = 80 /\ IncidentCount(data[h]) = 2
        /\ Result(h).confidence = 440


\* C13: with c the clamped confidence of the request, the three alternatives
\* carry, in order, the probabilities min(0.98, c + 0.15), min(0.95, c + 0.08)
\* and max(0.50, c - 0.20), hence at most 0.98, at most 0.95 and at least
\* 0.50, and the descriptions "Extra safe: arrive 10 minutes early",
\* "Safe: arrive 5 minutes early" and "Risky: might arrive 5 minutes late".
C13_AlternativeProbabilities ==
    \A h \in Handlers :
        Done(h) /\ Ok(h) /\ ValidRequest(data[h])
        => LET c == ConfidenceOf(data[h], arrival_time[h], current_time[h])
               alts == Result(h).alternative_leaves_times
           IN  /\ c \in 400..980
               /\ Len(alts) = 3
               /\ alts[1].arrival_probability = (IF c + 150 > 980 THEN 980 ELSE c + 150)
               /\ alts[2].arrival_probability = (IF c + 80 > 950 THEN 950 ELSE c + 80)
               /\ alts[3].arrival_probability = (IF c - 200 < 500 THEN 500 ELSE c - 200)
               /\ alts[1].arrival_probability <= 980
               /\ alts[2].arrival_probability <= 950
               /\ alts[3].arrival_probability >= 500
               /\ alts[1].description = "Extra safe: arrive 10 minutes early"
               /\ alts[2].description = "Safe: arrive 5 minutes early"
               /\ alts[3].description = "Risky: might arrive 5 minutes late"

\* a result with confidence 0.85, whose extra-safe probability is capped at
\* 0.98 (0.85 + 0.15 = 1.00)
C13_Witness ==
    \E h \in Handlers :
        /\ Done(h) /\ Ok(h) /\ ValidRequest(data[h])
        /\ ConfidenceOf(data[h], arrival_time[h], current_time[h]) = 850
        /\ Result(h).alternative_leaves_times[1].arrival_probability = 980
        /\ Result(h).alternative_leaves_times[2].arrival_probability = 930
        /\ Result(h).alternative_leaves_times[3].arrival_probability = 650


\* clamp(congestionLevel, 0, 4)
ClampLevel(c) == IF c < 0 THEN 0 ELSE IF c > 4 THEN 4 ELSE c

\* C14: for every integer congestionLevel the lookups use the index
\* clamp(congestionLevel, 0, 4): a request with such a level, valid in
\* everything else, gets the response of the same request with the clamped
\* level; a level below 0 gets that of level 0 (multiplier 1.00, penalty 0)
\* and no out-of-range fault.
C14_ClampOnBothSides ==
    \A h \in Handlers :
        /\ Done(h) /\ FirstMissing(data[h]) = 0
        /\ Congestion(data[h]).t = "int"
        /\ ValidRequest(WithCongestion(data[h], 0))
        => response[h]
             = CalculateResponse(WithCongestion(data[h], ClampLevel(Congestion(data[h]).v)),
                                 arrival_time[h], current_time[h])


\* C15: leaving earlier is never reported as less likely to arrive on time:
\* for every valid request extraSafe.arrivalProbability >=
\* safe.arrivalProbability >= risky.arrivalProbability, and the risky
\* probability does not exceed the confidence of the result.
C15_EarlierNeverLessLikely ==
    \A h \in Handlers :
        Done(h) /\ Ok(h) /\ ValidRequest(data[h])
        => LET alts == Result(h).alternative_leaves_times
           IN  /\ alts[1].arrival_probability >= alts[2].arrival_probability
               /\ alts[2].arrival_probability >= alts[3].arrival_probability
               /\ alts[3].arrival_probability <= Result(h).confidence


\* C16: after any sequence of Apple/Google sign-ins, email sign-ups, provider
\* links and email sign-ins, a successful authenticate_with_email(email,
\* password) issues its token for the user to which the password of that
\* email was attached (by the sign-up with that email or by the link of the
\* 'password' provider), never for another user carrying the same email.
C16_TokenOnlyForPasswordOwner ==
    [][\A email \in Emails, password \in Passwords :
          AuthEmailSignin(email, password) /\ auth_response'.status = 200
          => auth_response'.user_id = password_owner[email]]_vars


\* C17: in every reachable state of the auth stores each email with a hash in
\* email_passwords is the email of a user of users_db whose providers include
\* 'password', so a sign-in with that email and its password never answers
\* 'User not found'; an /auth/link request with provider 'password' that ends
\* in an error leaves email_passwords and users_db unchanged.
C17_HashedEmailHasPasswordUser ==
    /\ [](\A email \in Emails :
            email_passwords[email] # NoHash
            => \E i \in 1..Len(users_db) :
                  /\ users_db[i].email = email
                  /\ Contains(users_db[i].providers, "password"))
    /\ [][\A email \in Emails, password \in Passwords :
            /\ AuthEmailSignin(email, password)
            /\ email_passwords[email] # NoHash
            /\ verify_password(password, email_passwords[email])
            => auth_response'.status # 404]_vars
    /\ [][\A user_id \in UserIds(users_db), email \in Emails, password \in Passwords :
            AuthLink(user_id, "password", email, password) /\ auth_response'.status >= 400
            => UNCHANGED <<users_db, email_passwords>>]_vars

====
